---- MODULE Spec2Model ----
(***************************************************************************)
(* Pane / Form coordination of pane-framework.                             *)
(*                                                                         *)
(* Two implementations live side by side in the repository:                *)
(*   - the reducer variant (src/unnamed/part_000): a Pane keeps            *)
(*     state.forms through paneReducer, a Form registers in an effect and  *)
(*     useForm keeps the field values;                                     *)
(*   - the HOC variant (src/src/current/index.js): withPane keeps         *)
(*     this.forms and handleSubmit, withForm keeps the field values.       *)
(* Both are driven by the same SimplePaneContext / WizardPaneContext.      *)
(***************************************************************************)
EXTENDS Integers, Sequences, FiniteSets, TLC

\* ------------------------------------------------------------------ bounds
\* number of Form instances that may be mounted under one Pane
MaxFormInstances == 3
\* number of dispatches the registry history remembers
HistLen == 2
\* number of clicks on the Submit / Next buttons of the four contexts
MaxTriggers == 4
\* number of onChange calls React may apply in one batch
MaxBatch == 2

\* ------------------------------------------------------------- value sets
FormKeys == {"name", "address"}
FormIds == 1..MaxFormInstances
Unmounted == "unmounted"
\* the keys onChange is called with: one the initial values hold, one they lack
FieldKeys == {"first", "city"}
FieldVals == {"Jane", "Doe"}

\* the wizard renders two panes: step === 0 and step === 1
NumPanes == 2
Steps == 0..(NumPanes - 1)
Undefined == "undefined"
Null == "null"

VARIABLES
    forms,        \* part_000: Pane's reducer state, state.forms
    mounted,      \* part_000: per Form instance, its formKey prop or Unmounted
    hist,         \* the last HistLen dispatches: action, forms before / after, threw
    step,         \* index.js: WizardPaneContext this.state.step
    stepUpdates,  \* index.js: updaters queued by this.setState, not yet applied
    panes,        \* index.js: WizardPaneContext this.panes (the refs)
    simplePane,   \* index.js: SimplePaneContext this.pane (the ref)
    hkStep,       \* part_000: WizardPaneContext this.state.step
    hkStepUpdates,\* part_000: updaters queued by this.setState
    hkPanes,      \* part_000: WizardPaneContext this.panes
    hkSimplePane, \* part_000: SimplePaneContext this.pane
    log,          \* the console: every console.log line, in order
    triggers,     \* one record per click: context, step read, pane called, outcome
    hocValues,    \* index.js: WithForm this.state.values
    hocQueue,     \* index.js: the updaters setState queued, not yet applied
    hookValues,   \* part_000: useForm's values, as of the last render
    hookQueue,    \* part_000: the states setValues queued, not yet applied
    formHist      \* the last batch React applied and the values before it

registryVars == <<forms, mounted, hist>>
contextVars == <<step, stepUpdates, panes, simplePane, hkStep, hkStepUpdates,
                 hkPanes, hkSimplePane, log, triggers>>
formVars == <<hocValues, hocQueue, hookValues, hookQueue, formHist>>
vars == <<forms, mounted, hist, step, stepUpdates, panes, simplePane, hkStep,
          hkStepUpdates, hkPanes, hkSimplePane, log, triggers, hocValues, hocQueue,
          hookValues, hookQueue, formHist>>

\* ------------------------------------------------------- reducer variant
\* forms.filter(formKey => formKey !== action.formKey)
FilterOut(fs, formKey) == SelectSeq(fs, LAMBDA x : x # formKey)

\* a deregistration with the comparison inverted (=== for !==)
FilterIn(fs, formKey) == SelectSeq(fs, LAMBDA x : x = formKey)

\* a deregistration that removes the first occurrence only
RECURSIVE RemoveFirst(_, _)
RemoveFirst(fs, formKey) ==
    IF fs = <<>> THEN <<>>
    ELSE IF Head(fs) = formKey THEN Tail(fs)
    ELSE <<Head(fs)>> \o RemoveFirst(Tail(fs), formKey)

\* case "REGISTER": forms: [...state.forms, action.formKey]
ReducerRegister(fs, formKey) == Append(fs, formKey)

\* case "DEREGISTER": forms: state.forms.filter(...)
ReducerDeregister(fs, formKey) == FilterOut(fs, formKey)

\* a reducer that treats the DEREGISTER of an unknown formKey as an error
paneReducerStrict(state, action) ==
    CASE action.type = "REGISTER" ->
            [threw |-> FALSE,
             state |-> [state EXCEPT !.forms = ReducerRegister(state.forms, action.formKey)]]
      [] action.type = "DEREGISTER" ->
            IF \E i \in DOMAIN state.forms : state.forms[i] = action.formKey
            THEN [threw |-> FALSE,
                  state |-> [state EXCEPT
                                !.forms = ReducerDeregister(state.forms, action.formKey)]]
            ELSE [threw |-> TRUE, state |-> state]
      [] OTHER ->
            [threw |-> TRUE, state |-> state]

\* a reducer whose default case returns the state instead of throwing
paneReducerLenient(state, action) ==
    CASE action.type = "REGISTER" ->
            [threw |-> FALSE,
             state |-> [state EXCEPT !.forms = ReducerRegister(state.forms, action.formKey)]]
      [] action.type = "DEREGISTER" ->
            [threw |-> FALSE,
             state |-> [state EXCEPT !.forms = ReducerDeregister(state.forms, action.formKey)]]
      [] OTHER ->
            [threw |-> FALSE, state |-> state]

\* paneReducer(state, action): the new state, or threw for an unrecognized type
paneReducer(state, action) ==
    CASE action.type = "REGISTER" ->
            [threw |-> FALSE,
             state |-> [state EXCEPT !.forms = ReducerRegister(state.forms, action.formKey)]]
      [] action.type = "DEREGISTER" ->
            [threw |-> FALSE,
             state |-> [state EXCEPT !.forms = ReducerDeregister(state.forms, action.formKey)]]
      [] OTHER ->
            [threw |-> TRUE, state |-> state]

\* React.useReducer(paneReducer, { forms: [] })
PaneInitialState == [forms |-> <<>>]

\* the history entry of one dispatch from registry fs
Entry(fs, action) ==
    LET r == paneReducer([forms |-> fs], action)
    IN  [action |-> action, before |-> fs, after |-> r.state.forms, threw |-> r.threw]

Remember(h, e) ==
    LET all == Append(h, e)
    IN  IF Len(all) > HistLen THEN SubSeq(all, Len(all) - HistLen + 1, Len(all)) ELSE all

\* Form's effect on mount: dispatch({ type: "REGISTER", formKey })
MountForm(f, formKey) ==
    /\ mounted[f] = Unmounted
    /\ LET e == Entry(forms, [type |-> "REGISTER", formKey |-> formKey])
       IN  /\ forms' = e.after
           /\ hist' = Remember(hist, e)
    /\ mounted' = [mounted EXCEPT ![f] = formKey]
    /\ UNCHANGED <<contextVars, formVars>>

\* Form's effect cleanup on unmount: dispatch({ type: "DEREGISTER", formKey })
UnmountForm(f) ==
    /\ mounted[f] # Unmounted
    /\ LET e == Entry(forms, [type |-> "DEREGISTER", formKey |-> mounted[f]])
       IN  /\ forms' = e.after
           /\ hist' = Remember(hist, e)
    /\ mounted' = [mounted EXCEPT ![f] = Unmounted]
    /\ UNCHANGED <<contextVars, formVars>>

\* Form re-rendered with another formKey: the dependency [formKey, dispatch]
\* changed, so the cleanup of the old effect runs and then the new effect
RekeyForm(f, formKey) ==
    /\ mounted[f] # Unmounted
    /\ mounted[f] # formKey
    /\ LET e1 == Entry(forms, [type |-> "DEREGISTER", formKey |-> mounted[f]])
           e2 == Entry(e1.after, [type |-> "REGISTER", formKey |-> formKey])
       IN  /\ forms' = e2.after
           /\ hist' = Remember(Remember(hist, e1), e2)
    /\ mounted' = [mounted EXCEPT ![f] = formKey]
    /\ UNCHANGED <<contextVars, formVars>>

\* a descendant of Pane dispatches, through the context value [state, dispatch],
\* an action whose type the reducer does not know
DispatchUnrecognized ==
    /\ LET e == Entry(forms, [type |-> "UNRECOGNIZED", formKey |-> "name"])
       IN  /\ forms' = e.after
           /\ hist' = Remember(hist, e)
    /\ UNCHANGED mounted
    /\ UNCHANGED <<contextVars, formVars>>

RegistryInit ==
    /\ forms = PaneInitialState.forms
    /\ mounted = [f \in FormIds |-> Unmounted]
    /\ hist = <<>>

NextRegistry ==
    \/ \E f \in FormIds, k \in FormKeys : MountForm(f, k)
    \/ \E f \in FormIds : UnmountForm(f)
    \/ \E f \in FormIds, k \in FormKeys : RekeyForm(f, k)
    \/ DispatchUnrecognized

\* ----------------------------------------------------------- HOC variant
\* a ref that holds no component: this.panes[i] never assigned, or assigned null
NoRef(marker) == [name |-> marker, forms |-> <<>>, handleSubmit |-> Undefined]

\* class WithPane: forms = [], handleSubmit not yet set
WithPaneNew(name) == [name |-> name, forms |-> <<>>, handleSubmit |-> Undefined]

\* setHandleSubmit(onSubmit): this.handleSubmit = () => { console.log(...); onSubmit() }
setHandleSubmit(pane, onSubmit) == [pane EXCEPT !.handleSubmit = onSubmit]

\* initPane = config => this.setHandleSubmit(config.onSubmit)
initPane(pane, config) == setHandleSubmit(pane, config.onSubmit)

\* createPaneForm: this.forms.push(formKey)
createPaneForm(pane, formKey) == [pane EXCEPT !.forms = Append(pane.forms, formKey)]

\* UserPane's constructor: initPane, then createPaneForm("name"), ("address")
UserPaneInstance ==
    createPaneForm(
        createPaneForm(
            initPane(WithPaneNew("UserPane"), [onSubmit |-> "UserPane submit"]),
            "name"),
        "address")

\* a ProductPane whose constructor does not call props.initPane
ProductPaneNotInitialised == WithPaneNew("ProductPane")

\* ProductPane's constructor: initPane only, a pane without forms
ProductPaneInstance ==
    initPane(WithPaneNew("ProductPane"), [onSubmit |-> "ProductPane submit"])

\* a handleSubmit that also fans out to one callback per registered form
PaneSubmitLinesFanOut(pane) ==
    <<"WithPane handleSubmit">> \o pane.forms \o <<pane.handleSubmit>>

\* the body of a pane's handleSubmit: the lines it logs. A form callback would
\* log its formKey; the pane calls none of them.
PaneSubmitLines(pane) == <<"WithPane handleSubmit", pane.handleSubmit>>

\* ref.handleSubmit(): a TypeError when the ref holds no component or the
\* component has no handleSubmit, else the lines the call logs
CallHandleSubmit(ref) ==
    IF ref.name \in {Undefined, Null} \/ ref.handleSubmit = Undefined
    THEN [threw |-> TRUE, lines |-> <<>>]
    ELSE [threw |-> FALSE, lines |-> PaneSubmitLines(ref)]

\* a wizard that queues the advance on every click
WizardAdvancesAlways(s) == TRUE

\* a wizard that never queues the advance
WizardAdvancesNever(s) == FALSE

\* if (this.state.step === 0)
WizardAdvances(s) == s = 0

\* an updater that skips a step
StepUpdaterSkips(prevStep) == prevStep + 2

\* a handler that catches what the pane's handleSubmit throws and goes on
QueuesAdvanceDespiteThrow(call, s) == WizardAdvances(s)

\* handleSubmit reaches its setState only if the call of the pane's
\* handleSubmit returned, and then only if (this.state.step === 0)
QueuesAdvance(call, s) == ~call.threw /\ WizardAdvances(s)

\* prevState => ({ step: prevState.step + 1 })
StepUpdater(prevStep) == prevStep + 1

\* the updaters queued by setState, applied in order
RECURSIVE ApplyUpdaters(_, _)
ApplyUpdaters(s, n) == IF n = 0 THEN s ELSE ApplyUpdaters(StepUpdater(s), n - 1)

\* a render whose refs ignore null, el => el && (this.panes[i] = el): the ref of
\* a pane that unmounted keeps the dead instance
WizardRefsKeepStale(old, s) ==
    [i \in Steps |->
        IF i = s /\ old[i].name \in {Undefined, Null}
        THEN IF i = 0 THEN UserPaneInstance ELSE ProductPaneInstance
        ELSE old[i]]

\* WizardPaneContext.render: {step === 0 && <UserPane ref=.../>}
\* {step === 1 && <ProductPane ref=.../>}. A pane that stays mounted keeps its
\* instance, a pane that mounts is constructed, a pane that unmounts has its
\* ref called with null, a ref never called stays as it was. At a step past
\* the last pane no pane is rendered.
WizardRefs(old, s) ==
    [i \in Steps |->
        IF i = s
        THEN IF old[i].name \in {Undefined, Null}
             THEN IF i = 0 THEN UserPaneInstance ELSE ProductPaneInstance
             ELSE old[i]
        ELSE IF old[i].name \in {Undefined, Null} THEN old[i] ELSE NoRef(Null)]

\* the panes render() returns at step s: {step === 0 && <UserPane/>},
\* {step === 1 && <ProductPane/>}
RenderedPanes(s) == {i \in Steps : i = s}

\* the panes of the HOC wizard whose ref holds a mounted component
MountedPanes == {i \in Steps : panes[i].name \notin {Undefined, Null}}

\* part_000: UserPane and ProductPane are function components; a ref on a
\* function component is never attached, so this.panes and this.pane stay unset
HookWizardRefs(old, s) == old

\* a click is handled once the previous click is over: its handler has returned
\* and React has applied the updates the handler queued
Idle == stepUpdates = 0 /\ hkStepUpdates = 0

TriggerRecord(ctx, s, ref, call) ==
    [ctx |-> ctx, step |-> s, pending |-> stepUpdates + hkStepUpdates,
     pane |-> ref.name, forms |-> ref.forms,
     threw |-> call.threw, lines |-> call.lines]

\* SimplePaneContext.handleSubmit (index.js): log, then this.pane.handleSubmit()
SimpleHandleSubmit ==
    /\ Len(triggers) < MaxTriggers
    /\ Idle
    /\ LET call == CallHandleSubmit(simplePane)
       IN  /\ log' = log \o <<"SimplePaneContext handleSubmit">> \o call.lines
           /\ triggers' = Append(triggers, TriggerRecord("simple", 0, simplePane, call))
    /\ UNCHANGED <<step, stepUpdates, panes, simplePane, hkStep, hkStepUpdates,
                   hkPanes, hkSimplePane>>
    /\ UNCHANGED <<registryVars, formVars>>

\* WizardPaneContext.handleSubmit (index.js), one click: the handler runs to its
\* end before React applies what setState queued
WizardHandleSubmit ==
    /\ Len(triggers) < MaxTriggers
    /\ Idle
    /\ LET ref == IF step \in Steps THEN panes[step] ELSE NoRef(Undefined)
           call == CallHandleSubmit(ref)
       IN  /\ triggers' = Append(triggers, TriggerRecord("wizard", step, ref, call))
           /\ log' = IF call.threw THEN log
                     ELSE log \o call.lines \o <<"WizardPaneContext handleSubmit">>
           /\ stepUpdates' = IF QueuesAdvance(call, step)
                             THEN stepUpdates + 1 ELSE stepUpdates
    /\ UNCHANGED <<step, panes, simplePane, hkStep, hkStepUpdates, hkPanes,
                   hkSimplePane>>
    /\ UNCHANGED <<registryVars, formVars>>

\* React applies the updaters a click queued, at the end of that click, and
\* renders the wizard: the refs of the panes that mount and unmount are called
ReactCommit ==
    /\ ~Idle
    /\ step' = ApplyUpdaters(step, stepUpdates)
    /\ stepUpdates' = 0
    /\ panes' = IF stepUpdates > 0
                THEN WizardRefs(panes, step') ELSE panes
    /\ hkStep' = ApplyUpdaters(hkStep, hkStepUpdates)
    /\ hkStepUpdates' = 0
    /\ hkPanes' = IF hkStepUpdates > 0
                  THEN HookWizardRefs(hkPanes, hkStep') ELSE hkPanes
    /\ UNCHANGED <<simplePane, hkSimplePane, log, triggers>>
    /\ UNCHANGED <<registryVars, formVars>>

\* SimplePaneContext.handleSubmit (part_000): log, then this.pane.handleSubmit()
HookSimpleHandleSubmit ==
    /\ Len(triggers) < MaxTriggers
    /\ Idle
    /\ LET call == CallHandleSubmit(hkSimplePane)
       IN  /\ log' = log \o <<"SimplePaneContext handleSubmit">> \o call.lines
           /\ triggers' = Append(triggers,
                                 TriggerRecord("hookSimple", 0, hkSimplePane, call))
    /\ UNCHANGED <<step, stepUpdates, panes, simplePane, hkStep, hkStepUpdates,
                   hkPanes, hkSimplePane>>
    /\ UNCHANGED <<registryVars, formVars>>

\* WizardPaneContext.handleSubmit (part_000), one click
HookWizardHandleSubmit ==
    /\ Len(triggers) < MaxTriggers
    /\ Idle
    /\ LET ref == IF hkStep \in Steps THEN hkPanes[hkStep] ELSE NoRef(Undefined)
           call == CallHandleSubmit(ref)
       IN  /\ triggers' = Append(triggers,
                                 TriggerRecord("hookWizard", hkStep, ref, call))
           /\ log' = IF call.threw THEN log
                     ELSE log \o call.lines \o <<"WizardPaneContext handleSubmit">>
           /\ hkStepUpdates' = IF QueuesAdvance(call, hkStep)
                               THEN hkStepUpdates + 1 ELSE hkStepUpdates
    /\ UNCHANGED <<step, stepUpdates, panes, simplePane, hkStep, hkPanes,
                   hkSimplePane>>
    /\ UNCHANGED <<registryVars, formVars>>

\* the state after the first render of App: step 0, the mounted panes' refs set
ContextInit ==
    /\ step = 0
    /\ stepUpdates = 0
    /\ panes = WizardRefs([i \in Steps |-> NoRef(Undefined)], 0)
    /\ simplePane = UserPaneInstance
    /\ hkStep = 0
    /\ hkStepUpdates = 0
    /\ hkPanes = HookWizardRefs([i \in Steps |-> NoRef(Undefined)], 0)
    /\ hkSimplePane = NoRef(Undefined)
    /\ log = <<>>
    /\ triggers = <<>>

\* ------------------------------------------------------------ form state
\* NameForm's initialValues: { first: props.user.first, last: props.user.last }
NameInitialValues == [first |-> "John", last |-> "Doe"]

\* { ...values, [key]: value }
MergeField(values, key, value) ==
    [k \in (DOMAIN values) \cup {key} |-> IF k = key THEN value ELSE values[k]]

\* an update written without the spread: { [key]: value }
OnlyField(values, key, value) == [k \in {key} |-> value]

\* withForm: the updater handleChange passes to setState,
\* prevState => ({ ...prevState, values: { ...prevState.values, [key]: value } })
HocUpdater(prevValues, key, value) == MergeField(prevValues, key, value)

\* useForm: the state handleChange passes to setValues, computed from the
\* values of the render that created this handleChange
HookNextValues(values, key, value) == MergeField(values, key, value)

\* React applies withForm's queued updaters in order, each to the result of
\* the one before
RECURSIVE ApplyHocQueue(_, _)
ApplyHocQueue(values, queue) ==
    IF queue = <<>> THEN values
    ELSE ApplyHocQueue(HocUpdater(values, Head(queue).key, Head(queue).value),
                       Tail(queue))

\* React applies useForm's queued states in order: each replaces the state
ApplyHookQueue(values, queue) ==
    IF queue = <<>> THEN values ELSE queue[Len(queue)]

\* onChange(key, value) on a withForm form and on a useForm form
OnChange(key, value) ==
    /\ Len(hocQueue) < MaxBatch
    /\ hocQueue' = Append(hocQueue, [key |-> key, value |-> value])
    /\ hookQueue' = Append(hookQueue, HookNextValues(hookValues, key, value))
    /\ UNCHANGED <<hocValues, hookValues, formHist>>
    /\ UNCHANGED <<registryVars, contextVars>>

\* React applies what the calls queued and renders both forms again
FormCommit ==
    /\ hocQueue # <<>>
    /\ hocValues' = ApplyHocQueue(hocValues, hocQueue)
    /\ hookValues' = ApplyHookQueue(hookValues, hookQueue)
    /\ hocQueue' = <<>>
    /\ hookQueue' = <<>>
    /\ formHist' = [batch |-> hocQueue, hocBefore |-> hocValues,
                    hookBefore |-> hookValues]
    /\ UNCHANGED <<registryVars, contextVars>>

\* state = { values: config.initialValues }; React.useState(initialValues)
FormInit ==
    /\ hocValues = NameInitialValues
    /\ hocQueue = <<>>
    /\ hookValues = NameInitialValues
    /\ hookQueue = <<>>
    /\ formHist = [batch |-> <<>>, hocBefore |-> NameInitialValues,
                   hookBefore |-> NameInitialValues]

NextForm ==
    \/ \E key \in FieldKeys, value \in FieldVals : OnChange(key, value)
    \/ FormCommit

Init == RegistryInit /\ ContextInit /\ FormInit

Next ==
    \/ SimpleHandleSubmit
    \/ WizardHandleSubmit
    \/ ReactCommit
    \/ HookSimpleHandleSubmit
    \/ HookWizardHandleSubmit

\* the contexts of both variants: clicks on their buttons
Spec == Init /\ [][Next]_vars

\* one Pane of the reducer variant and the Forms under it
SpecRegistry == Init /\ [][NextRegistry]_vars

\* one form of each variant, given the same onChange calls
SpecForm == Init /\ [][NextForm]_vars

\* ---------------------------------------------------------------- claims
Range(s) == {s[i] : i \in DOMAIN s}
IsRegister(e) == e.action.type = "REGISTER"
IsDeregister(e) == e.action.type = "DEREGISTER"

\* the places of the history where a REGISTER of an identifier is directly
\* followed by the DEREGISTER of the same identifier
RoundTrips ==
    {i \in 1..(Len(hist) - 1) :
        /\ IsRegister(hist[i])
        /\ IsDeregister(hist[i + 1])
        /\ hist[i].action.formKey = hist[i + 1].action.formKey}

\* C1: the registry's list of form identifiers never holds the same
\* identifier twice.
C1_NoDuplicateIdentifiers ==
    \A i, j \in DOMAIN forms : i # j => forms[i] # forms[j]

\* C2 as stated: registering an identifier and then deregistering it leaves
\* the registry's sequence as it was before the registration, whatever the
\* registry held.
C2_RoundTripAlways ==
    \A i \in RoundTrips : hist[i + 1].after = hist[i].before

\* C2 as amended: registering an identifier that is not in the registry and
\* then deregistering it leaves the registry's sequence as it was before the
\* registration.
C2_RoundTripWhenAbsent ==
    \A i \in RoundTrips :
        hist[i].action.formKey \notin Range(hist[i].before)
            => hist[i + 1].after = hist[i].before

C2_Witness ==
    \E i \in RoundTrips :
        /\ hist[i].action.formKey \notin Range(hist[i].before)
        /\ hist[i].before # <<>>
        /\ hist[i + 1].after = hist[i].before

\* C9: deregistering an identifier that is not registered raises no error and
\* leaves the registry's sequence unchanged.
C9_DeregisterAbsentIsNoOp ==
    \A i \in DOMAIN hist :
        (IsDeregister(hist[i]) /\ hist[i].action.formKey \notin Range(hist[i].before))
            => (~hist[i].threw /\ hist[i].after = hist[i].before)

C9_Witness ==
    \E i \in DOMAIN hist :
        /\ IsDeregister(hist[i])
        /\ hist[i].action.formKey \notin Range(hist[i].before)
        /\ hist[i].before # <<>>
        /\ forms = hist[Len(hist)].after

\* C10: register appends the identifier at the end only if it is absent;
\* registering an identifier that is present leaves the sequence unchanged.
C10_RegisterIdempotent ==
    \A i \in DOMAIN hist :
        IsRegister(hist[i])
            => hist[i].after =
                   IF hist[i].action.formKey \in Range(hist[i].before)
                   THEN hist[i].before
                   ELSE Append(hist[i].before, hist[i].action.formKey)

\* the places of fs that hold formKey
PlacesOf(fs, formKey) == {j \in DOMAIN fs : fs[j] = formKey}

\* C11: deregister(formId) removes every occurrence of formId: afterwards
\* formId is not in the list, and the other identifiers are all still there,
\* in the order they had.
C11_DeregisterRemovesAll ==
    \A i \in DOMAIN hist :
        IsDeregister(hist[i])
            => LET k == hist[i].action.formKey
                   b == hist[i].before
                   a == hist[i].after
               IN  /\ k \notin Range(a)
                   /\ Len(a) = Len(b) - Cardinality(PlacesOf(b, k))
                   /\ \A j \in DOMAIN b :
                         b[j] # k =>
                             a[j - Cardinality({m \in PlacesOf(b, k) : m < j})] = b[j]

C11_Witness ==
    \E i \in DOMAIN hist :
        /\ IsDeregister(hist[i])
        /\ Cardinality(PlacesOf(hist[i].before, hist[i].action.formKey)) >= 2
        /\ hist[i].after # <<>>
        /\ hist[i].before[1] = hist[i].action.formKey

\* C15: the reducer raises for an action whose type is neither REGISTER nor
\* DEREGISTER and produces no new registry state for it; REGISTER and
\* DEREGISTER never raise.
C15_OnlyUnrecognizedRaises ==
    \A i \in DOMAIN hist :
        /\ hist[i].threw <=> hist[i].action.type \notin {"REGISTER", "DEREGISTER"}
        /\ hist[i].threw => hist[i].after = hist[i].before
        /\ i = Len(hist) => forms = hist[i].after

C15_Witness ==
    \E i \in DOMAIN hist :
        /\ hist[i].threw
        /\ hist[i].action.type = "UNRECOGNIZED"
        /\ hist[i].before # <<>>
        /\ \E j \in DOMAIN hist : ~hist[j].threw

\* C16: once every mount, unmount and formKey change has been processed, the
\* registry holds the key of every mounted Form and the key of no unmounted
\* Form, also when two mounted Forms share a formKey and one of them unmounts.
C16_RegistryMatchesMountedForms ==
    Range(forms) = {mounted[f] : f \in {g \in FormIds : mounted[g] # Unmounted}}

\* the clicks of one context, in order
TriggersOf(ctx) == SelectSeq(triggers, LAMBDA t : t.ctx = ctx)

\* the lines of a submit that a form's callback logged: the form's identifier
FormLines(lines) == SelectSeq(lines, LAMBDA l : l \in FormKeys)

\* the lines of a submit that any callback logged: all but the pane's own line
CallbackLines(lines) == SelectSeq(lines, LAMBDA l : l # "WithPane handleSubmit")

\* a click that reached a mounted pane
Submitted(t) == t.pane \notin {Undefined, Null}

C4_NoFormsNoCallback ==
    \A i \in DOMAIN triggers :
        (Submitted(triggers[i]) /\ triggers[i].forms = <<>>)
            => (~triggers[i].threw /\ CallbackLines(triggers[i].lines) = <<>>)

\* C4 as amended: submitting a withPane pane with no registered form raises no
\* error and calls no form's callback; the pane's own onSubmit is called once.
C4_NoFormsNoFormCallback ==
    \A i \in DOMAIN triggers :
        (Submitted(triggers[i]) /\ triggers[i].forms = <<>>)
            => /\ ~triggers[i].threw
               /\ FormLines(triggers[i].lines) = <<>>
               /\ CallbackLines(triggers[i].lines) = <<"ProductPane submit">>

C4_Witness ==
    \E i \in DOMAIN triggers :
        /\ triggers[i].pane = "ProductPane"
        /\ triggers[i].forms = <<>>
        /\ ~triggers[i].threw

\* the pane the wizard renders at a step
PaneOfStep(s) == IF s = 0 THEN "UserPane" ELSE "ProductPane"

\* the two-step scenario of one wizard, W its clicks, s its step and pending
\* its queued updaters: the first click reads step 0, every later click reads
\* step 1, each click submits the pane of the step it read without error, and
\* once a click is over the step is 1
TwoStepScenario(W, s, pending) ==
    /\ \A i \in DOMAIN W :
          /\ W[i].step = (IF i = 1 THEN 0 ELSE 1)
          /\ ~W[i].threw
          /\ W[i].pane = PaneOfStep(W[i].step)
          /\ Len(CallbackLines(W[i].lines)) = 1
    /\ pending = 0 => s = (IF W = <<>> THEN 0 ELSE 1)

\* C5: a two-step wizard starts at step 0; the first trigger submits pane 0
\* and advances to step 1; every later trigger submits pane 1 and the step
\* stays 1; no trigger raises. Here for the wizard of the reducer variant.
C5_HookWizardTwoSteps ==
    TwoStepScenario(TriggersOf("hookWizard"), hkStep, hkStepUpdates)

\* C5, for the wizard of the HOC variant alone.
C5_HocWizardTwoSteps ==
    TwoStepScenario(TriggersOf("wizard"), step, stepUpdates)

\* C12: in the wizard exactly one pane is mounted in every reachable state,
\* the pane of the current step and no other; never zero panes, never two.
C12_ExactlyOnePaneActive ==
    /\ Cardinality(RenderedPanes(step)) = 1
    /\ Cardinality(RenderedPanes(hkStep)) = 1
    /\ MountedPanes = RenderedPanes(step)
    /\ MountedPanes = {step}
    /\ panes[step].name = PaneOfStep(step)

C12_Witness ==
    /\ step = 1
    /\ panes[0].name = Null
    /\ panes[1].name = "ProductPane"
    /\ triggers # <<>>

\* C13: a registration lives as long as its form is mounted: while the pane
\* of step 0 is mounted its forms "name" and "address" are registered with it,
\* and once the wizard has advanced to step 1 and that pane is unmounted no
\* pane of the wizard holds "name" or "address".
C13_RegistrationsEndWithUnmount ==
    /\ \A i \in MountedPanes :
          panes[i].forms = (IF i = 0 THEN <<"name", "address">> ELSE <<>>)
    /\ step = 1 =>
          /\ panes[0].name = Null
          /\ \A i \in Steps : Range(panes[i].forms) \cap {"name", "address"} = {}

C13_Witness ==
    /\ step = 1
    /\ \E i \in DOMAIN triggers :
          /\ triggers[i].ctx = "wizard"
          /\ triggers[i].step = 0
          /\ triggers[i].forms = <<"name", "address">>
    /\ panes[0].forms = <<>>

\* C13, for the reducer variant: the key of a Form that mounted is in the
\* registry, the key of a Form that unmounted is not, and with every Form of the
\* pane unmounted the registry is empty.
C13_ReducerRegistrationLifecycle ==
    /\ (hist # <<>> /\ IsRegister(hist[Len(hist)]))
          => hist[Len(hist)].action.formKey \in Range(forms)
    /\ (hist # <<>> /\ IsDeregister(hist[Len(hist)]))
          => hist[Len(hist)].action.formKey \notin Range(forms)
    /\ (\A f \in FormIds : mounted[f] = Unmounted) => forms = <<>>

\* a wizard's clicks W, step s and queued updaters pending: a click whose call
\* of the pane's handleSubmit threw logged nothing of the wizard's own and left
\* the step where it was
ThrowAborts(W, s, pending) ==
    /\ \A i \in DOMAIN W :
          W[i].threw =>
              /\ W[i].lines = <<>>
              /\ i < Len(W) => W[i + 1].step = W[i].step
              /\ i = Len(W) => (s = W[i].step /\ pending = 0)

\* C14: if the submit of the current step's pane raises during a trigger, the
\* trigger is aborted: the step is not advanced and stays at the value it had.
C14_ThrowAbortsTrigger ==
    /\ ThrowAborts(TriggersOf("wizard"), step, stepUpdates)
    /\ ThrowAborts(TriggersOf("hookWizard"), hkStep, hkStepUpdates)
    /\ Len(SelectSeq(log, LAMBDA l : l = "WizardPaneContext handleSubmit"))
          = Len(SelectSeq(triggers,
                          LAMBDA t : t.ctx \in {"wizard", "hookWizard"} /\ ~t.threw))

C14_Witness ==
    LET W == TriggersOf("hookWizard")
    IN  /\ Len(W) >= 2
        /\ W[1].threw
        /\ W[2].threw
        /\ W[2].step = 0
        /\ hkStep = 0

Min(a, b) == IF a < b THEN a ELSE b

\* C6: the step of the wizard (HOC variant) is always one of 0..N-1: it starts
\* at 0, goes up by exactly 1 with a trigger at a step before the last, and
\* stays with a trigger at the last step.
C6_StepInRange ==
    LET W == TriggersOf("wizard")
    IN  /\ step \in Steps
        /\ step + stepUpdates \in Steps
        /\ \A i \in DOMAIN W : W[i].step = Min(i - 1, NumPanes - 1)
        /\ stepUpdates = 0 => step = Min(Len(W), NumPanes - 1)

C6_Witness ==
    /\ Len(TriggersOf("wizard")) >= 3
    /\ step = NumPanes - 1
    /\ stepUpdates = 0

\* C7: a trigger never reads a step whose advancement is still to be applied,
\* so no two triggers submit the same non-terminal pane and the step never
\* goes up twice from one step read.
C7_TriggerAtomic ==
    LET W == TriggersOf("wizard")
    IN  /\ \A i \in DOMAIN W : W[i].pending = 0
        /\ \A i, j \in DOMAIN W :
              (i < j /\ W[i].step = W[j].step) => W[i].step = NumPanes - 1
        /\ step + stepUpdates
              <= Cardinality({W[i].step : i \in DOMAIN W} \ {NumPanes - 1})

C7_Witness ==
    LET W == TriggersOf("wizard")
    IN  /\ Len(W) >= 2
        /\ W[1].pane = "UserPane"
        /\ W[2].pane = "ProductPane"

\* a batch that is the same onChange call, made once or repeated
SameCall(batch) ==
    /\ batch # <<>>
    /\ \A i \in DOMAIN batch : batch[i] = batch[1]

\* after is before, except that key maps to value
EqualExcept(after, before, key, value) ==
    /\ DOMAIN after = (DOMAIN before) \cup {key}
    /\ after[key] = value
    /\ \A k \in (DOMAIN before) \ {key} : after[k] = before[k]

\* C8: after setField(k, v) the values equal the values before except that k
\* maps to v, every other key keeping its value, and repeating the same
\* setField(k, v) changes nothing further; for withForm and for useForm.
C8_SetFieldThenGetValues ==
    SameCall(formHist.batch)
        => LET c == formHist.batch[1]
           IN  /\ EqualExcept(hocValues, formHist.hocBefore, c.key, c.value)
               /\ EqualExcept(hookValues, formHist.hookBefore, c.key, c.value)

\* the value the calls of batch, made on the values before, leave in key: the
\* value of the last call that wrote key, or what before held
LastWritten(before, batch, key) ==
    LET writes == {i \in DOMAIN batch : batch[i].key = key}
    IN  IF writes = {} THEN before[key]
        ELSE batch[CHOOSE i \in writes : \A j \in writes : j <= i].value

\* the keys the values hold after the calls of batch
KeysAfter(before, batch) == (DOMAIN before) \cup {batch[i].key : i \in DOMAIN batch}

\* after holds, for every key, the last value written to it
NoUpdateLost(after, before, batch) ==
    /\ DOMAIN after = KeysAfter(before, batch)
    /\ \A k \in KeysAfter(before, batch) : after[k] = LastWritten(before, batch, k)

\* C17: no field update is lost, also for two onChange calls made before the
\* form renders again: the values map each key to the last value written to it,
\* and useForm and withForm hold the same values after the same calls.
C17_NoUpdateLost ==
    /\ NoUpdateLost(hocValues, formHist.hocBefore, formHist.batch)
    /\ NoUpdateLost(hookValues, formHist.hookBefore, formHist.batch)
    /\ hookValues = hocValues

\* C17, for withForm alone.
C17_HocNoUpdateLost ==
    NoUpdateLost(hocValues, formHist.hocBefore, formHist.batch)

C8_Witness ==
    /\ Len(formHist.batch) = 1
    /\ "city" \in DOMAIN formHist.hocBefore
    /\ formHist.hocBefore # NameInitialValues
    /\ hocValues # formHist.hocBefore
    /\ hookValues # formHist.hookBefore
    /\ hocQueue = <<>>

====
